---- MODULE Spec2Model ----
(***************************************************************************)
(* One invocation of a JetSendNotifications serverless function.           *)
(*                                                                         *)
(* The repository holds seven stand-alone handlers (the files under src/   *)
(* are concatenations of them).  `variant` selects the handler:            *)
(*   "rich"      src/src/index.ts 1-425      $collectionId routing, Expo,  *)
(*                                           tokens read from collections  *)
(*   "register"  src/src/index.ts 427-485    push-token registration       *)
(*   "hardcoded" src/src/index.ts 487-779    events routing, fixed token   *)
(*   "managed"   src/unnamed/part_000 1-340  $collectionId routing,        *)
(*                                           messaging.createPush          *)
(*   "dynamic"   src/unnamed/part_000 342-698 events routing, tokens read  *)
(*                                           from collections              *)
(*   "targets"   src/unnamed/part_001        events routing, listTargets   *)
(*   "rest"      src/src/sendPushNotification.ts  events routing,          *)
(*                                           client.call targets lookup    *)
(*                                                                         *)
(* An optional JavaScript value is a sequence of length 0 (undefined) or 1 *)
(* (the value).  A text is a sequence of pieces, so that concatenation,    *)
(* slicing and "verbatim" are things the model can tell apart.             *)
(***************************************************************************)
EXTENDS Integers, Sequences, FiniteSets, TLC

VARIABLES
    variant,    \* which handler runs
    env,        \* process.env: which variables are set
    reqBody,    \* req.body as the host hands it over
    store,      \* the external document store and target registry
    pc,         \* position of the invocation in the handler
    payload,    \* webhookPayload once parsed
    route,      \* the handler the classification chose
    docRead,    \* the post / comment document the chosen handler works on
    fetched,    \* results of the record fetches of handleNewPost / handleNewComment
    intent,     \* notificationData handed to the send function
    dests,      \* resolved destination list (tokens or target identifiers)
    calls,      \* log of the downstream calls made, in order
    responses,  \* log of the res.json calls made, in order
    escaped     \* an exception left the exported handler

vars == <<variant, env, reqBody, store, pc, payload, route, docRead, fetched,
          intent, dests, calls, responses, escaped>>

----------------------------------------------------------------------------
(* Bounds of the model *)

NumUsers == 2

----------------------------------------------------------------------------
(* Optional values and texts *)

None == <<>>
Some(v) == <<v>>
Has(f) == f # <<>>
Val(f) == f[1]

Variants == {"rich", "register", "hardcoded", "managed", "dynamic", "targets", "rest"}

\* handlers that start with the two credential checks
CheckedVariants == {"rich", "register", "hardcoded", "managed", "dynamic"}
\* handlers that route on payload.$collectionId / on payload.events[0]
CollectionVariants == {"rich", "managed"}
EventVariants == {"hardcoded", "dynamic", "targets", "rest"}
\* handlers whose send function reads tokens with getUserPushTokens
TokenVariants == {"rich", "dynamic"}
\* handlers whose send function looks up messaging targets per user
TargetVariants == {"targets", "rest"}


----------------------------------------------------------------------------
(* Identifiers and literals of the source *)

UserIds == { "u" \o ToString(i) : i \in 1..NumUsers }
PostId == "p1"
CommentId == "c1"

\* the literals of the placeholder payload built when JSON.parse fails
PlaceholderUserId == "6899b68b00337f047f35"
PlaceholderPostId == "6897373f0013ebd5a0c6"
PlaceholderTitle == <<"Test Notification">>

\* the device token written into the "hardcoded" send function
HardcodedTokenText == "ExponentPushToken[2urmJODmArO240nQ1D6fZX]"

\* the substrings the events-routing handlers look for in events[0]
PostsMarker(v) == IF v = "rest" THEN "posts_collection" ELSE "6896fbb2003568eb4840"
CommentsMarker(v) == IF v = "rest" THEN "comments_collection" ELSE "68970496002d7aff12cb"
CreateMarker == "create"

\* Query.limit(100) / listDocuments(.., [], 100)
PageLimit == 100

\* the values of POSTS_COLLECTION_ID / COMMENTS_COLLECTION_ID when they are set
PostsCollectionId == "posts"
CommentsCollectionId == "comments"

\* messages the handlers build themselves
MsgNoProject == <<"APPWRITE_PROJECT_ID is not defined">>
MsgNoKey == <<"APPWRITE_API_KEY is not defined">>
MsgMissingFields == <<"Missing required fields: userIds, title, body, postId, type">>
MsgMissingRegisterFields == <<"Missing required fields: userId, token, platform">>
MsgUnhandledEvent == <<"Unhandled event type">>
MsgNoTargets == <<"No valid push targets found">>
MsgInvalidJsonPrefix == "Invalid JSON body: "
MsgInvalidFormat == "Invalid request body format"
MsgExpoPrefix == "Expo API error: "
MsgProviderNotConfigured ==
    <<"Messaging provider not configured. Please set up FCM in Appwrite Console.">>
MsgTargetsNotDefined == <<"targets is not defined">>

\* messages that come from the runtime, a library or a remote service
ErrSyntax == "SyntaxError"           \* JSON.parse
ErrType == "TypeError"               \* property read on null / undefined, call of a non-function
ErrNotFound == "Document with the requested ID could not be found."   \* getDocument
ErrUnavailable == "AppwriteException: service unavailable"   \* any call to the backend
ErrFetch == "FetchError"             \* the HTTP client could not reach the push endpoint
ErrExpoText == "expo-error-body"     \* response.text() of a non-2xx push response
ErrProviderNotFound == "Provider not found"
ErrMessaging == "AppwriteException: messaging"


----------------------------------------------------------------------------
(* Documents and payloads *)

\* the fields of a post / comment document the handlers read
EmptyDoc ==
    [id |-> None, authorId |-> None, userId |-> None, postId |-> None,
     title |-> None, content |-> None, authorName |-> None]

\* a parsed JSON value: an object with the properties the handlers read, or
\* null, or a scalar (number, string, boolean)
EmptyPayload ==
    [kind |-> "object", events |-> None, collectionId |-> None, document |-> None,
     userIds |-> None, body |-> None, type |-> None,
     token |-> None, platform |-> None,
     id |-> None, authorId |-> None, userId |-> None, postId |-> None,
     title |-> None, content |-> None, authorName |-> None]

NullPayload == [EmptyPayload EXCEPT !.kind = "null"]
ScalarPayload == [EmptyPayload EXCEPT !.kind = "scalar"]

\* the payload itself read as a document (`const document = payload`)
TopLevelDoc(p) ==
    [id |-> p.id, authorId |-> p.authorId, userId |-> p.userId, postId |-> p.postId,
     title |-> p.title, content |-> p.content, authorName |-> p.authorName]

\* a document whose fields are inlined in the payload / carried under `document`
Inlined(p, d) ==
    [p EXCEPT !.id = d.id, !.authorId = d.authorId, !.userId = d.userId,
              !.postId = d.postId, !.title = d.title, !.content = d.content,
              !.authorName = d.authorName]
Nested(p, d) == [p EXCEPT !.document = Some(d)]

\* a text of n characters
Chars(n) == [i \in 1..n |-> "x"]


----------------------------------------------------------------------------
(* The inputs of an invocation *)

\* An event name is modelled by the set of the substrings it contains among
\* those String.includes is asked about.
EvPostCreate(v) == {PostsMarker(v), CreateMarker}
EvCommentCreate(v) == {CommentsMarker(v), CreateMarker}
EvPostUpdate(v) == {PostsMarker(v), "update"}
EvOtherCreate == {"other_collection", CreateMarker}

EventLists(v) ==
    { <<e>> : e \in {EvPostCreate(v), EvCommentCreate(v), EvPostUpdate(v), EvOtherCreate} }
    \cup { <<>>, <<EvOtherCreate, EvPostCreate(v)>> }

\* the envelope fields a request may carry
Envelopes(v) ==
    IF v \in CollectionVariants
    THEN { [EmptyPayload EXCEPT !.collectionId = c]
             : c \in {None, Some(PostsCollectionId), Some(CommentsCollectionId), Some("other")} }
    ELSE { [EmptyPayload EXCEPT !.events = e]
             : e \in {None} \cup { Some(l) : l \in EventLists(v) } }

\* lengths of the content of a post: short, and on either side of the longest preview
ContentLengths == {3, 60, 61}

PostDocs ==
    { [EmptyDoc EXCEPT !.id = Some(PostId), !.authorId = Some(a),
                       !.content = Some(Chars(n))] : a \in UserIds, n \in ContentLengths }
CommentDocs ==
    { [EmptyDoc EXCEPT !.id = Some(CommentId), !.userId = Some(u),
                       !.postId = Some(PostId), !.content = Some(Chars(2))] : u \in UserIds }

WebhookPayloads(v) ==
    { Nested(p, d) : p \in Envelopes(v), d \in PostDocs \cup CommentDocs }
    \cup { Inlined(p, d) : p \in Envelopes(v), d \in PostDocs \cup CommentDocs }
    \cup Envelopes(v)

\* userIds as the request gives it: an array, or a truthy value without .join
UserIdsValues ==
    { [isArray |-> TRUE, items |-> <<u>>] : u \in UserIds }
    \cup { [isArray |-> TRUE, items |-> <<>>], [isArray |-> FALSE, items |-> <<>>] }

FullDirect(ids) ==
    [EmptyPayload EXCEPT !.userIds = Some(ids), !.title = Some(<<"Hello">>),
                         !.body = Some(<<"World">>), !.postId = Some(PostId),
                         !.type = Some("new_post")]

DirectPayloads ==
    { FullDirect(ids) : ids \in UserIdsValues }
    \cup { [FullDirect([isArray |-> TRUE, items |-> <<"u1">>]) EXCEPT ![f] = None]
             : f \in {"userIds", "title", "body", "postId", "type"} }
    \cup { [FullDirect([isArray |-> TRUE, items |-> <<"u1">>]) EXCEPT !.type = Some("other_type")] }

RegisterPayloads ==
    { [EmptyPayload EXCEPT !.userId = u, !.token = t, !.platform = pf]
        : u \in {None, Some("u1")}, t \in {None, Some("device-token"), Some("  ")},
          pf \in {None, Some("fcm")} }

NotifyPayloads(v) == WebhookPayloads(v) \cup DirectPayloads

Payloads(v) == IF v = "register" THEN RegisterPayloads ELSE NotifyPayloads(v)

\* req.body.  form: "object"   an already parsed object
\*                  "json"     JSON text of `value`; `escapes`: a string in it holds \"
\*                  "quoted"   JSON text of `value`, inner quotes escaped, wrapped in quotes
\*                  "jsonstring" JSON text of a string that is not itself JSON
\*                  "garbage"  text that is not JSON
\*                  "other"    undefined
Body(form, value, escapes) == [form |-> form, value |-> value, escapes |-> escapes]
GarbageText == <<"not json">>

SamplePayloads(v) ==
    IF v = "register" THEN { [EmptyPayload EXCEPT !.userId = Some("u1"),
                                !.token = Some("device-token"), !.platform = Some("fcm")] }
    ELSE { FullDirect([isArray |-> TRUE, items |-> <<"u1">>]) }

Bodies(v) ==
    { Body("json", p, FALSE) : p \in Payloads(v) \cup {NullPayload, ScalarPayload} }
    \cup { Body(f, p, FALSE) : f \in {"object", "quoted"}, p \in SamplePayloads(v) }
    \cup { Body("json", p, TRUE) : p \in SamplePayloads(v) }
    \cup { Body(f, EmptyPayload, FALSE) : f \in {"jsonstring", "garbage", "other"} }

\* process.env: the two credentials, and the two collection identifiers that the
\* $collectionId routing compares with
Envs(v) ==
    { [projectId |-> c[1], apiKey |-> c[2], collectionIds |-> k]
        : c \in {<<TRUE, TRUE>>, <<FALSE, TRUE>>, <<TRUE, FALSE>>},
          k \in IF v \in CollectionVariants THEN BOOLEAN ELSE {TRUE} }

\* A device token / target identifier.  `owner` is the user whose device it is
\* (not visible to the program); `text` is the string the program sees.
Token(owner, text) == [owner |-> owner, text |-> text]
ValidText == "ExponentPushToken[x]"

TokenConfigs == {"all", "none", "mixed"}

\* documents of the push-token collection.  pushToken is optional.
TokenDocsOf(cfg) ==
    CASE cfg = "all" -> { [userId |-> u, pushToken |-> Some(Token(u, ValidText))] : u \in UserIds }
      [] cfg = "none" -> {}
      [] cfg = "mixed" -> { [userId |-> "u1", pushToken |-> t]
                              : t \in {None, Some(Token("u1", "")), Some(Token("u1", "  ")),
                                       Some(Token("u1", ValidText))} }

\* push targets of the messaging service's registry; an identifier is the string that
\* was registered, and the registration handler accepts any truthy token
TargetsOf(cfg, u) ==
    CASE u \notin UserIds -> {}
      [] cfg = "all" -> { [userId |-> u, identifier |-> Token(u, ValidText)] }
      [] cfg = "none" -> {}
      [] cfg = "mixed" -> IF u = "u1"
                          THEN { [userId |-> u, identifier |-> Token(u, t)]
                                   : t \in {ValidText, "ExponentPushToken[y]", "  "} }
                          ELSE {}

\* a record of the users collection
UserRecord(cfg, u) ==
    [id |-> u,
     name |-> Some(<<u>>),
     pushToken |-> IF cfg = "mixed" /\ u = "u1" THEN Some(Token(u, "  ")) ELSE None,
     expoPushToken |-> IF cfg = "none" THEN None ELSE Some(Token(u, ValidText))]

UserListings == { {}, {"u1"}, UserIds }

\* title and content of the post the comments refer to: a title, content on either
\* side of the longest preview of a comment notification, or neither
StoredPostTexts ==
    { [title |-> Some(<<"T">>), content |-> Some(Chars(41))],
      [title |-> None, content |-> Some(Chars(40))],
      [title |-> None, content |-> Some(Chars(41))],
      [title |-> None, content |-> None] }

Stores ==
    { [users |-> us, postAuthor |-> a, tokens |-> cfg, postText |-> t]
        : us \in UserListings, a \in UserIds, cfg \in TokenConfigs, t \in StoredPostTexts }

\* the registration handler reads no store
StoresFor(v) ==
    IF v = "register"
    THEN { [users |-> {}, postAuthor |-> "u1", tokens |-> "none",
            postText |-> [title |-> None, content |-> None]] }
    ELSE Stores

\* the post the comments refer to
StoredPost(st) ==
    [EmptyDoc EXCEPT !.id = Some(PostId), !.authorId = Some(st.postAuthor),
                     !.title = st.postText.title, !.content = st.postText.content]

\* How the downstream calls made so far have ended.
\* author, users, post, commenter: "none", "pending", "ok" or the rejection's message;
\* rejected: the message Promise.all rejected with, if it did;
\* tokens, fallback: the two queries of getUserPushTokens, "none", "ok" or the message;
\* push: "none" or how the push call (or createPushTarget) ended; receipts: result.data
\* of a 2xx response; pushError: the message createPush / createPushTarget rejected with
NoFetches ==
    [author |-> "none", users |-> "none", post |-> "none", commenter |-> "none",
     rejected |-> "none", tokens |-> "none", fallback |-> "none",
     push |-> "none", receipts |-> <<>>, pushError |-> <<>>]

NoIntent ==
    [userIds |-> <<>>, isArray |-> TRUE, title |-> <<>>, body |-> <<>>,
     postId |-> None, type |-> ""]

Init ==
    /\ variant \in Variants
    /\ env \in Envs(variant)
    /\ reqBody \in Bodies(variant)
    /\ store \in StoresFor(variant)
    /\ pc = "start"
    /\ payload = EmptyPayload
    /\ route = "none"
    /\ docRead = None
    /\ fetched = NoFetches
    /\ intent = NoIntent
    /\ dests = <<>>
    /\ calls = <<>>
    /\ responses = <<>>
    /\ escaped = FALSE


----------------------------------------------------------------------------
(* Responses and the call log *)

\* res.json(data, status): status is None where the call passes no status
Response(ok, status, error) ==
    [ok |-> ok, status |-> status, error |-> error, message |-> <<>>,
     details |-> <<>>, sentTo |-> None, messageId |-> None, targetId |-> None]

\* Failure with the status argument of res.json left out
Failure_NoStatus(status, error) == Response(FALSE, None, error)

\* res.json({ ok: false, error }, status)
Failure(status, error) == Response(FALSE, Some(status), error)
Success(status, message) == [Response(TRUE, status, <<>>) EXCEPT !.message = message]

\* a call `op` on `target` with `arg`, made by the function `by`
Call(by, op, target, arg) == [by |-> by, op |-> op, target |-> target, arg |-> arg]

\* `return res.json(...)`: the invocation ends with this response
Finish(r) ==
    /\ responses' = Append(responses, r)
    /\ pc' = "done"

Log(c) == calls' = Append(calls, c)

----------------------------------------------------------------------------
(* Entry: credential checks and client construction *)

\* if (!process.env.APPWRITE_PROJECT_ID) ... if (!process.env.APPWRITE_API_KEY) ...
\* The "targets" and "rest" handlers have no such checks.
CheckCredentials ==
    /\ pc = "start"
    /\ IF variant \in CheckedVariants /\ ~env.projectId
       THEN Finish(Failure(500, MsgNoProject))
       ELSE IF variant \in CheckedVariants /\ ~env.apiKey
       THEN Finish(Failure(500, MsgNoKey))
       ELSE pc' = "client" /\ UNCHANGED responses
    /\ UNCHANGED <<variant, env, reqBody, store, payload, route, docRead, fetched,
                   intent, dests, calls, escaped>>

\* new Client().setEndpoint(..).setProject(..).setKey(..), before the try block
CreateClient ==
    /\ pc = "client"
    /\ pc' = "parse"
    /\ UNCHANGED <<variant, env, reqBody, store, payload, route, docRead, fetched,
                   intent, dests, calls, responses, escaped>>

\* "targets" and "rest" import Client from the `appwrite` package and call setKey
\* on it outside any try ("targets" through client[Client.prototype.setKey]): where
\* that lookup yields no function the TypeError leaves the handler.
CreateClientThrows ==
    /\ pc = "client"
    /\ variant \in TargetVariants
    /\ pc' = "crashed"
    /\ escaped' = TRUE
    /\ UNCHANGED <<variant, env, reqBody, store, payload, route, docRead, fetched,
                   intent, dests, calls, responses>>

----------------------------------------------------------------------------
(* Body parsing *)

IsString(b) == b.form \in {"json", "quoted", "jsonstring", "garbage"}

\* req.body.replace(/^"|"$/g, '').replace(/\\"/g, '"')
\*   "quoted": the outer quotes go and \" becomes ", which leaves the inner JSON text;
\*   "jsonstring": the outer quotes go, which leaves the bare string content;
\*   "json" with an escaped quote inside a string: the escape goes, the string breaks.
Cleaned(b) ==
    CASE b.form = "quoted" -> Body("json", b.value, FALSE)
      [] b.form = "jsonstring" -> Body("garbage", EmptyPayload, FALSE)
      [] b.form = "json" /\ b.escapes -> Body("garbage", EmptyPayload, FALSE)
      [] OTHER -> b

\* the text of a body, as far as the model tells texts apart
TextOf(b) == <<"text", b.form>>
CleanedText(b) == <<"cleaned", b.form>>

\* JSON.parse of a string body: the parsed value, or a SyntaxError
JsonParse(b) ==
    CASE b.form = "json" -> [ok |-> TRUE, value |-> b.value]
      [] b.form \in {"quoted", "jsonstring"} -> [ok |-> TRUE, value |-> ScalarPayload]
      [] OTHER -> [ok |-> FALSE, value |-> EmptyPayload]

\* the payload substituted when JSON.parse(cleanedBody) throws
PlaceholderPayload(b) ==
    [EmptyPayload EXCEPT
        !.userIds = Some([isArray |-> TRUE, items |-> <<PlaceholderUserId>>]),
        !.title = Some(PlaceholderTitle),
        !.body = Some(CleanedText(b)),
        !.postId = Some(PlaceholderPostId),
        !.type = Some("new_post"),
        !.events = Some(<<>>),
        !.document = Some(EmptyDoc)]

\* The result of the body-parsing block of each handler:
\* [ok, value] with the payload, or [ok = FALSE, error] with the message thrown.
ParseResult(v, b) ==
    IF v \in TargetVariants
    THEN \* JSON.parse(req.body); a non-string is converted to a string first
         IF IsString(b) /\ JsonParse(b).ok
         THEN [ok |-> TRUE, value |-> JsonParse(b).value, error |-> <<>>]
         ELSE [ok |-> FALSE, value |-> EmptyPayload, error |-> <<ErrSyntax>>]
    ELSE IF v = "register"
    THEN \* typeof req.body === 'string' ? JSON.parse(req.body) : req.body
         IF IsString(b)
         THEN IF JsonParse(b).ok
              THEN [ok |-> TRUE, value |-> JsonParse(b).value, error |-> <<>>]
              ELSE [ok |-> FALSE, value |-> EmptyPayload,
                    error |-> <<MsgInvalidJsonPrefix, ErrSyntax>>]
         ELSE IF b.form = "object"
         THEN [ok |-> TRUE, value |-> b.value, error |-> <<>>]
         ELSE [ok |-> TRUE, value |-> NullPayload, error |-> <<>>]
    ELSE IF IsString(b)
    THEN IF JsonParse(Cleaned(b)).ok
         THEN [ok |-> TRUE, value |-> JsonParse(Cleaned(b)).value, error |-> <<>>]
         ELSE [ok |-> TRUE, value |-> PlaceholderPayload(b), error |-> <<>>]
    ELSE IF b.form = "object"
    THEN [ok |-> TRUE, value |-> b.value, error |-> <<>>]
    ELSE [ok |-> FALSE, value |-> EmptyPayload,
          error |-> <<MsgInvalidJsonPrefix, MsgInvalidFormat>>]

\* the parsing block, and the outer catch when it throws
ParseBody ==
    /\ pc = "parse"
    /\ Log(Call("handler", "parseBody", "req", <<>>))
    /\ LET r == ParseResult(variant, reqBody) IN
         IF r.ok
         THEN /\ payload' = r.value
              /\ pc' = IF variant = "register" THEN "register" ELSE "classify"
              /\ UNCHANGED responses
         ELSE /\ Finish(Failure(500, r.error))
              /\ UNCHANGED payload
    /\ UNCHANGED <<variant, env, reqBody, store, route, docRead, fetched,
                   intent, dests, escaped>>


----------------------------------------------------------------------------
(* Classification *)

\* process.env.POSTS_COLLECTION_ID / COMMENTS_COLLECTION_ID: undefined when not set
EnvCollectionId(e, id) == IF e.collectionIds THEN Some(id) ELSE None

\* eventType.includes(s)
Includes(eventType, s) == s \in eventType

\* RouteOf with every entry of events examined, not only the first
RouteOf_AnyEntry(v, e, p) ==
    IF v \in CollectionVariants
    THEN IF p.collectionId = EnvCollectionId(e, PostsCollectionId) THEN "newPost"
         ELSE IF p.collectionId = EnvCollectionId(e, CommentsCollectionId) THEN "newComment"
         ELSE "direct"
    ELSE IF Has(p.events) /\ Len(Val(p.events)) > 0
         THEN LET entries == { Val(p.events)[i] : i \in 1..Len(Val(p.events)) } IN
              IF \E t \in entries : Includes(t, PostsMarker(v)) /\ Includes(t, CreateMarker)
              THEN "newPost"
              ELSE IF \E t \in entries :
                         Includes(t, CommentsMarker(v)) /\ Includes(t, CreateMarker)
              THEN "newComment"
              ELSE "unhandled"
         ELSE "direct"

\* which handler the exported function calls: "newPost", "newComment", "direct",
\* or "unhandled" (handleWebhookEvent's else branch)
RouteOf(v, e, p) ==
    IF v \in CollectionVariants
    THEN IF p.collectionId = EnvCollectionId(e, PostsCollectionId) THEN "newPost"
         ELSE IF p.collectionId = EnvCollectionId(e, CommentsCollectionId) THEN "newComment"
         ELSE "direct"
    ELSE IF Has(p.events) /\ Len(Val(p.events)) > 0
         THEN LET eventType == Val(p.events)[1] IN
              IF Includes(eventType, PostsMarker(v)) /\ Includes(eventType, CreateMarker)
              THEN "newPost"
              ELSE IF Includes(eventType, CommentsMarker(v)) /\ Includes(eventType, CreateMarker)
              THEN "newComment"
              ELSE "unhandled"
         ELSE "direct"

\* the document handed to handleNewPost / handleNewComment (None: undefined)
DocumentOf(v, p) ==
    IF v \in CollectionVariants
    THEN IF Has(p.document) THEN p.document ELSE Some(TopLevelDoc(p))   \* document || payload
    ELSE IF v \in TargetVariants
    THEN Some(TopLevelDoc(p))                                           \* document = payload
    ELSE p.document                                                     \* payload.document

\* where each handler starts
FirstStep(v, r) ==
    CASE r = "newPost" -> IF v \in CollectionVariants THEN "fetchAuthor" ELSE "listUsers"
      [] r = "newComment" -> IF v \in CollectionVariants THEN "issueFetches" ELSE "fetchPost"
      [] OTHER -> "direct"

\* the if / else-if chain after parsing; a property read on null throws into the
\* outer catch
Classify ==
    /\ pc = "classify"
    /\ IF payload.kind = "null"
       THEN /\ Finish(Failure(500, <<ErrType>>))
            /\ UNCHANGED <<route, docRead>>
       ELSE LET r == RouteOf(variant, env, payload) IN
            IF r = "unhandled"
            THEN /\ Finish(Failure(400, MsgUnhandledEvent))
                 /\ route' = r
                 /\ UNCHANGED docRead
            ELSE /\ route' = r
                 /\ docRead' = IF r = "direct" THEN None ELSE DocumentOf(variant, payload)
                 /\ pc' = FirstStep(variant, r)
                 /\ UNCHANGED responses
    /\ UNCHANGED <<variant, env, reqBody, store, payload, fetched, intent, dests,
                   calls, escaped>>

----------------------------------------------------------------------------
(* Helpers on sequences and texts *)

RECURSIVE SeqOf(_)
\* the documents of a collection in the order a listing returns them
SeqOf(S) == IF S = {} THEN <<>>
            ELSE LET x == CHOOSE y \in S : TRUE IN <<x>> \o SeqOf(S \ {x})

\* the first page of a listing
FirstPage(seq) == IF Len(seq) > PageLimit THEN SubSeq(seq, 1, PageLimit) ELSE seq

\* content.slice(0, n)
Slice(text, n) == IF Len(text) > n THEN SubSeq(text, 1, n) ELSE text

\* the status a success response is given: the "targets" and "rest" handlers pass
\* none to res.json on their success paths
OkStatus(v) == IF v \in TargetVariants THEN None ELSE Some(200)


----------------------------------------------------------------------------
(* Notification texts *)

PostPreviewLen == 60       \* rich / managed handleNewPost
CommentPreviewLen == 40    \* rich / managed handleNewComment
SimplePreviewLen == 50     \* the other handlers

\* JavaScript truthiness of an optional text
Truthy(f) == Has(f) /\ Val(f) # <<>>

\* x.name || 'Someone'
NameOrSomeone(f) == IF Truthy(f) THEN Val(f) ELSE <<"Someone">>

\* content.length > n ? content.slice(0, n) + '...' : content
Preview(content, n) == IF Len(content) > n THEN Slice(content, n) \o <<"...">> ELSE content

\* the `: "<title or preview>"` suffix of the rich / managed bodies
RichSuffix(doc, n) ==
    IF Truthy(doc.title) THEN <<": \"">> \o Val(doc.title) \o <<"\"">>
    ELSE IF Truthy(doc.content) THEN <<": \"">> \o Preview(Val(doc.content), n) \o <<"\"">>
    ELSE <<>>

\* title || content?.slice(0, 50) + '...'
SimpleExcerpt(doc) ==
    IF Truthy(doc.title) THEN Val(doc.title)
    ELSE (IF Has(doc.content) THEN Slice(Val(doc.content), SimplePreviewLen)
          ELSE <<"undefined">>) \o <<"...">>

PostTitle(v) == IF v = "managed" THEN <<"\\uD83D\\uDCDD New Post">> ELSE <<"New Post">>
CommentTitle(v) == IF v = "managed" THEN <<"\\uD83D\\uDCAC New Comment">> ELSE <<"New Comment">>

\* notificationData of handleNewPost
NewPostIntent(v, userIds, authorName, doc) ==
    [userIds |-> userIds, isArray |-> TRUE,
     title |-> PostTitle(v),
     body |-> IF v \in CollectionVariants
              THEN NameOrSomeone(authorName) \o <<" shared a new post">>
                   \o RichSuffix(doc, PostPreviewLen)
              ELSE <<"New post by ">> \o NameOrSomeone(doc.authorName) \o <<": ">>
                   \o SimpleExcerpt(doc),
     postId |-> doc.id,
     type |-> "new_post"]

\* notificationData of handleNewComment
NewCommentIntent(v, commenterName, comment, post) ==
    [userIds |-> IF Has(post.authorId) THEN <<Val(post.authorId)>> ELSE <<"undefined">>,
     isArray |-> TRUE,
     title |-> CommentTitle(v),
     body |-> IF v \in CollectionVariants
              THEN NameOrSomeone(commenterName) \o <<" commented on your post">>
                   \o RichSuffix(post, CommentPreviewLen)
              ELSE NameOrSomeone(comment.authorName) \o <<" commented on your post: \"">>
                   \o SimpleExcerpt(post) \o <<"\"">>,
     postId |-> comment.postId,
     type |-> "new_comment"]

----------------------------------------------------------------------------
(* handleNewPost *)

\* databases.getDocument(databaseId, collection, id) finds the record
UserExists(st, id) == Has(id) /\ Val(id) \in st.users
PostExists(st, id) == id = Some(PostId)

\* the ways a getDocument call can end: "ok", or the message of its rejection
GetDocumentOutcomes(exists) ==
    IF exists THEN {"ok", ErrUnavailable} ELSE {ErrNotFound, ErrUnavailable}
\* the ways any other backend call can end
CallOutcomes == {"ok", ErrUnavailable}

\* const author = await databases.getDocument(.., usersCollectionId, postDocument.authorId)
\* (rich and managed handlers only); a rejection goes to handleNewPost's catch
FetchAuthor ==
    /\ pc = "fetchAuthor"
    /\ Log(Call("handleNewPost", "getDocument", "users", Val(docRead).authorId))
    /\ \E outcome \in GetDocumentOutcomes(UserExists(store, Val(docRead).authorId)) :
         IF outcome = "ok"
         THEN /\ fetched' = [fetched EXCEPT !.author = "ok"]
              /\ pc' = "listUsers"
              /\ UNCHANGED responses
         ELSE /\ fetched' = [fetched EXCEPT !.author = outcome]
              /\ Finish(Failure(500, <<outcome>>))
    /\ UNCHANGED <<variant, env, reqBody, store, payload, route, docRead, intent,
                   dests, escaped>>

\* users.documents.map(user => user.$id).filter(userId => userId !== postDocument.authorId)
Recipients(documents, doc) == SelectSeq(documents, LAMBDA u : Some(u) # doc.authorId)

\* const users = await databases.listDocuments(..), the filter, the empty check and
\* the construction of notificationData; every throw goes to handleNewPost's catch
ListUsers ==
    /\ pc = "listUsers"
    /\ Log(Call("handleNewPost", "listDocuments", "users", <<>>))
    /\ \E outcome \in CallOutcomes :
         LET documents == FirstPage(SeqOf(store.users)) IN
         /\ fetched' = [fetched EXCEPT !.users = outcome]
         /\ IF outcome # "ok"
            THEN /\ Finish(Failure(500, <<outcome>>))
                 /\ UNCHANGED intent
            ELSE IF ~Has(docRead) /\ Len(documents) > 0
            THEN \* postDocument is undefined: the filter callback throws
                 /\ Finish(Failure(500, <<ErrType>>))
                 /\ UNCHANGED intent
            ELSE LET doc == IF Has(docRead) THEN Val(docRead) ELSE EmptyDoc
                     userIds == Recipients(documents, doc)
                     authorName == IF UserExists(store, doc.authorId)
                                   THEN UserRecord(store.tokens, Val(doc.authorId)).name
                                   ELSE None
                 IN IF Len(userIds) = 0
                    THEN /\ Finish(Success(OkStatus(variant), <<"No users to notify">>))
                         /\ UNCHANGED intent
                    ELSE /\ intent' = NewPostIntent(variant, userIds, authorName, doc)
                         /\ pc' = "send"
                         /\ UNCHANGED responses
    /\ UNCHANGED <<variant, env, reqBody, store, payload, route, docRead, dests, escaped>>

----------------------------------------------------------------------------
(* handleNewComment *)

\* after the fetches: the same-user check, then the construction of notificationData
AfterFetches(comment, post, commenterName) ==
    IF post.authorId = comment.userId
    THEN /\ Finish(Success(OkStatus(variant), <<"No notification needed - same user">>))
         /\ UNCHANGED intent
    ELSE /\ intent' = NewCommentIntent(variant, commenterName, comment, post)
         /\ pc' = "send"
         /\ UNCHANGED responses

\* rich / managed: Promise.all([getDocument(posts, postId), getDocument(users, userId)]):
\* both requests are issued before either is awaited
IssueFetches ==
    /\ pc = "issueFetches"
    /\ calls' = calls \o <<Call("handleNewComment", "getDocument", "posts", Val(docRead).postId),
                           Call("handleNewComment", "getDocument", "users", Val(docRead).userId)>>
    /\ fetched' = [fetched EXCEPT !.post = "pending", !.commenter = "pending"]
    /\ pc' = "awaitBoth"
    /\ UNCHANGED <<variant, env, reqBody, store, payload, route, docRead, intent,
                   dests, responses, escaped>>

\* what Promise.all has rejected with once a request settles with `outcome`
FirstRejection(f, outcome) ==
    IF f.rejected = "none" /\ outcome # "ok" THEN outcome ELSE f.rejected

\* the post request settles
PostFetchSettles ==
    /\ pc = "awaitBoth"
    /\ fetched.post = "pending"
    /\ \E outcome \in GetDocumentOutcomes(PostExists(store, Val(docRead).postId)) :
         fetched' = [fetched EXCEPT !.post = outcome,
                                    !.rejected = FirstRejection(fetched, outcome)]
    /\ UNCHANGED <<variant, env, reqBody, store, pc, payload, route, docRead, intent,
                   dests, calls, responses, escaped>>

\* the commenter request settles
CommenterFetchSettles ==
    /\ pc = "awaitBoth"
    /\ fetched.commenter = "pending"
    /\ \E outcome \in GetDocumentOutcomes(UserExists(store, Val(docRead).userId)) :
         fetched' = [fetched EXCEPT !.commenter = outcome,
                                    !.rejected = FirstRejection(fetched, outcome)]
    /\ UNCHANGED <<variant, env, reqBody, store, pc, payload, route, docRead, intent,
                   dests, calls, responses, escaped>>

\* JoinFetches going on without the commenter's record when only that fetch failed
JoinFetches_Degraded ==
    /\ pc = "awaitBoth"
    /\ \/ /\ fetched.rejected # "none"
          /\ fetched.post # "ok"
          /\ Finish(Failure(500, <<fetched.rejected>>))
          /\ UNCHANGED intent
       \/ /\ fetched.post = "ok" /\ fetched.commenter \notin {"none", "pending"}
          /\ AfterFetches(Val(docRead), StoredPost(store), None)
    /\ UNCHANGED <<variant, env, reqBody, store, payload, route, docRead, fetched,
                   dests, calls, escaped>>

\* the await of Promise.all resumes: with the first rejection (into handleNewComment's
\* catch) or, once both requests have succeeded, with both records
JoinFetches ==
    /\ pc = "awaitBoth"
    /\ \/ /\ fetched.rejected # "none"
          /\ Finish(Failure(500, <<fetched.rejected>>))
          /\ UNCHANGED intent
       \/ /\ fetched.post = "ok" /\ fetched.commenter = "ok"
          /\ AfterFetches(Val(docRead), StoredPost(store),
                          UserRecord(store.tokens, Val(Val(docRead).userId)).name)
    /\ UNCHANGED <<variant, env, reqBody, store, payload, route, docRead, fetched,
                   dests, calls, escaped>>

\* the other handlers: const post = await databases.getDocument(.., commentDocument.postId);
\* with commentDocument undefined the property read throws before any call
FetchPost ==
    /\ pc = "fetchPost"
    /\ IF ~Has(docRead)
       THEN /\ Finish(Failure(500, <<ErrType>>))
            /\ UNCHANGED <<intent, fetched, calls>>
       ELSE /\ Log(Call("handleNewComment", "getDocument", "posts", Val(docRead).postId))
            /\ \E outcome \in GetDocumentOutcomes(PostExists(store, Val(docRead).postId)) :
                 /\ fetched' = [fetched EXCEPT !.post = outcome]
                 /\ IF outcome = "ok"
                    THEN AfterFetches(Val(docRead), StoredPost(store), None)
                    ELSE /\ Finish(Failure(500, <<outcome>>))
                         /\ UNCHANGED intent
    /\ UNCHANGED <<variant, env, reqBody, store, payload, route, docRead, dests, escaped>>

----------------------------------------------------------------------------
(* handleDirectCall *)

\* HandleDirectCall with postId left out of the presence check
HandleDirectCall_NoPostIdCheck ==
    /\ pc = "direct"
    /\ IF ~Has(payload.userIds) \/ ~Truthy(payload.title) \/ ~Truthy(payload.body)
          \/ ~Has(payload.type)
       THEN /\ Finish(Failure(500, MsgMissingFields))
            /\ UNCHANGED intent
       ELSE /\ intent' = [userIds |-> Val(payload.userIds).items,
                          isArray |-> Val(payload.userIds).isArray,
                          title |-> Val(payload.title),
                          body |-> Val(payload.body),
                          postId |-> payload.postId,
                          type |-> Val(payload.type)]
            /\ pc' = "send"
            /\ UNCHANGED responses
    /\ UNCHANGED <<variant, env, reqBody, store, payload, route, docRead, fetched,
                   dests, calls, escaped>>

\* const { userIds, title, body, postId, type } = payload, the presence check
\* (its throw goes to the exported function's catch), and the call of the send function
HandleDirectCall ==
    /\ pc = "direct"
    /\ IF ~Has(payload.userIds) \/ ~Truthy(payload.title) \/ ~Truthy(payload.body)
          \/ ~Has(payload.postId) \/ ~Has(payload.type)
       THEN /\ Finish(Failure(500, MsgMissingFields))
            /\ UNCHANGED intent
       ELSE /\ intent' = [userIds |-> Val(payload.userIds).items,
                          isArray |-> Val(payload.userIds).isArray,
                          title |-> Val(payload.title),
                          body |-> Val(payload.body),
                          postId |-> payload.postId,
                          type |-> Val(payload.type)]
            /\ pc' = "send"
            /\ UNCHANGED responses
    /\ UNCHANGED <<variant, env, reqBody, store, payload, route, docRead, fetched,
                   dests, calls, escaped>>


----------------------------------------------------------------------------
(* The send functions: recipient resolution *)

Range(seq) == { seq[i] : i \in 1..Len(seq) }

\* the owner of the device the hardcoded token belongs to is not known to the code
DeviceOwners == UserIds \cup {"stranger"}

\* ResolutionStep with the token query of the Expo handlers left out
ResolutionStep_SkipLookup(v) ==
    CASE v \in TargetVariants -> "targets"
      [] v = "managed" -> "createPush"
      [] OTHER -> "push"

\* where the send function goes after its first log line
ResolutionStep(v) ==
    CASE v \in TokenVariants -> "tokens"
      [] v \in TargetVariants -> "targets"
      [] v = "managed" -> "createPush"
      [] OTHER -> "push"

\* log(`Sending ${type} notification to users: ${userIds.join(', ')}`): a userIds that
\* is no array has no join, and the TypeError is thrown outside the send function's
\* own try (a direct call's goes to the exported function's catch).  The "hardcoded"
\* handler then builds its payload for the fixed token.
EnterSend ==
    /\ pc = "send"
    /\ IF ~intent.isArray
       THEN /\ Finish(Failure(500, <<ErrType>>))
            /\ UNCHANGED dests
       ELSE /\ pc' = ResolutionStep(variant)
            /\ UNCHANGED responses
            /\ IF variant = "hardcoded"
               THEN \E owner \in DeviceOwners : dests' = <<Token(owner, HardcodedTokenText)>>
               ELSE UNCHANGED dests
    /\ UNCHANGED <<variant, env, reqBody, store, payload, route, docRead, fetched,
                   intent, calls, escaped>>

\* token.trim()
Trim(text) == IF text \in {"", " ", "  "} THEN "" ELSE text

\* .filter(token => token && token.trim() !== '')
Usable(t) == Has(t) /\ Val(t).text # "" /\ Trim(Val(t).text) # ""

\* user.pushToken || user.expoPushToken
OrElse(a, b) == IF Has(a) /\ Val(a).text # "" THEN a ELSE b

\* the values of the usable optional tokens of a list
UsableTokens(opts) ==
    LET kept == SelectSeq(opts, Usable) IN [i \in 1..Len(kept) |-> Val(kept[i])]

\* listDocuments(pushTokensCollectionId, [Query.contains('userId', userIds), Query.limit(100)])
\* then .map(doc => doc.pushToken) and the filter
TokensFromCollection(st, userIds) ==
    LET docs == FirstPage(SeqOf({ d \in TokenDocsOf(st.tokens) : d.userId \in Range(userIds) }))
    IN UsableTokens([i \in 1..Len(docs) |-> docs[i].pushToken])

\* listDocuments(usersCollectionId, [Query.contains('$id', userIds), Query.limit(100)])
\* then .map(user => user.pushToken || user.expoPushToken) and the filter
TokensFromUsers(st, userIds) ==
    LET docs == FirstPage(SeqOf({ u \in st.users : u \in Range(userIds) }))
    IN UsableTokens([i \in 1..Len(docs) |->
          OrElse(UserRecord(st.tokens, docs[i]).pushToken,
                 UserRecord(st.tokens, docs[i]).expoPushToken)])

\* AfterTokens without the check for an empty list
AfterTokens_NoEmptyCheck(pushTokens) ==
    /\ dests' = pushTokens
    /\ pc' = "push"
    /\ UNCHANGED responses

\* if (pushTokens.length === 0) return res.json({ok: true, message: .., sentTo: 0}, 200)
AfterTokens(pushTokens) ==
    IF Len(pushTokens) = 0
    THEN /\ Finish([Success(Some(200), <<"No push tokens found">>) EXCEPT !.sentTo = Some(0)])
         /\ UNCHANGED dests
    ELSE /\ dests' = pushTokens
         /\ pc' = "push"
         /\ UNCHANGED responses

\* QueryPushTokens going on to the users collection when the first query finds no
\* usable token
QueryPushTokens_FallbackOnEmpty ==
    /\ pc = "tokens"
    /\ Log(Call("getUserPushTokens", "listDocuments", "push_tokens", intent.userIds))
    /\ \E outcome \in CallOutcomes :
         /\ fetched' = [fetched EXCEPT !.tokens = outcome]
         /\ IF outcome = "ok" /\ TokensFromCollection(store, intent.userIds) # <<>>
            THEN AfterTokens(TokensFromCollection(store, intent.userIds))
            ELSE /\ pc' = "fallback"
                 /\ UNCHANGED <<dests, responses>>
    /\ UNCHANGED <<variant, env, reqBody, store, payload, route, docRead, intent, escaped>>

\* getUserPushTokens, first query: the push-token collection
QueryPushTokens ==
    /\ pc = "tokens"
    /\ Log(Call("getUserPushTokens", "listDocuments", "push_tokens", intent.userIds))
    /\ \E outcome \in CallOutcomes :
         /\ fetched' = [fetched EXCEPT !.tokens = outcome]
         /\ IF outcome = "ok"
            THEN AfterTokens(TokensFromCollection(store, intent.userIds))
            ELSE /\ pc' = "fallback"
                 /\ UNCHANGED <<dests, responses>>
    /\ UNCHANGED <<variant, env, reqBody, store, payload, route, docRead, intent, escaped>>

\* QueryUsersFallback with the failure of the second query answered as an error
QueryUsersFallback_Fails ==
    /\ pc = "fallback"
    /\ Log(Call("getUserPushTokens", "listDocuments", "users", intent.userIds))
    /\ \E outcome \in CallOutcomes :
         /\ fetched' = [fetched EXCEPT !.fallback = outcome]
         /\ IF outcome = "ok"
            THEN AfterTokens(TokensFromUsers(store, intent.userIds))
            ELSE /\ Finish(Failure(500, <<outcome>>))
                 /\ UNCHANGED dests
    /\ UNCHANGED <<variant, env, reqBody, store, payload, route, docRead, intent, escaped>>

\* getUserPushTokens, the catch of the first query: the users collection; when this
\* query throws too the outer catch returns []
QueryUsersFallback ==
    /\ pc = "fallback"
    /\ Log(Call("getUserPushTokens", "listDocuments", "users", intent.userIds))
    /\ \E outcome \in CallOutcomes :
         /\ fetched' = [fetched EXCEPT !.fallback = outcome]
         /\ IF outcome = "ok"
            THEN AfterTokens(TokensFromUsers(store, intent.userIds))
            ELSE AfterTokens(<<>>)
    /\ UNCHANGED <<variant, env, reqBody, store, payload, route, docRead, intent, escaped>>

RECURSIVE Flat(_)
\* results.flat()
Flat(lists) == IF lists = <<>> THEN <<>> ELSE Head(lists) \o Flat(Tail(lists))

\* "targets" / "rest": one target lookup per user id, each with its own catch that
\* yields [], then the empty check
LookupTargets ==
    /\ pc = "targets"
    /\ calls' = calls \o [i \in 1..Len(intent.userIds) |->
                            Call("sendPushNotifications", "listTargets", "messaging", <<intent.userIds[i]>>)]
    /\ \E failing \in SUBSET (1..Len(intent.userIds)) :
         LET targets == Flat([i \in 1..Len(intent.userIds) |->
                                IF i \in failing THEN <<>>
                                ELSE SeqOf(TargetsOf(store.tokens, intent.userIds[i]))])
         IN IF Len(targets) = 0
            THEN /\ Finish(Failure(400, MsgNoTargets))
                 /\ UNCHANGED dests
            ELSE /\ dests' = [i \in 1..Len(targets) |-> targets[i].identifier]
                 /\ pc' = "push"
                 /\ UNCHANGED responses
    /\ UNCHANGED <<variant, env, reqBody, store, payload, route, docRead, fetched,
                   intent, escaped>>


----------------------------------------------------------------------------
(* The send functions: delivery *)

\* how the POST to https://exp.host/--/api/v2/push/send can end: a 2xx response,
\* another response, or no response at all (the HTTP client throws)
ExpoOutcomes == {"ok", "rejected", "failed"}

\* result.data of a 2xx response: the delivery receipts' ids, if any
ReceiptLists == { <<>>, <<"receipt-1", "receipt-2">> }

\* ExpoPayload with title and body in each other's place
ExpoPayload_Swapped(n, to) ==
    [to |-> to, title |-> n.body, body |-> n.title, postId |-> n.postId,
     type |-> n.type, badge |-> 1]

\* expoPayload
ExpoPayload(n, to) ==
    [to |-> to, title |-> n.title, body |-> n.body, postId |-> n.postId,
     type |-> n.type, badge |-> 1]

\* The response the invocation ends with after the POST.
\*   non-2xx: res.json({ok: false, error: errorText}, 500); "rest" throws
\*     new Error(`Expo API error: ${errorText}`) instead, which the calling handler's
\*     catch answers with e.message;
\*   no response: the nearest catch answers with the client's message;
\*   2xx: res.json({ok: true, messageId: result.data?.[0]?.id, sentTo: ..}); "hardcoded"
\*     evaluates targets.length there, an undeclared name, and the ReferenceError
\*     reaches the calling handler's catch.
ExpoResponse(v, outcome, data, to) ==
    CASE outcome = "failed" -> Failure(500, <<ErrFetch>>)
      [] outcome = "rejected" ->
            Failure(500, IF v = "rest" THEN <<MsgExpoPrefix, ErrExpoText>> ELSE <<ErrExpoText>>)
      [] OTHER ->
            IF v = "hardcoded" THEN Failure(500, MsgTargetsNotDefined)
            ELSE [Response(TRUE, OkStatus(v), <<>>) EXCEPT
                    !.messageId = IF data = <<>> THEN None ELSE Some(data[1]),
                    !.sentTo = Some(Len(to))]

\* ExpoPost with the POST repeated once after a non-2xx response
ExpoPost_Retry ==
    /\ pc = "push"
    /\ Log(Call("sendPushNotifications", "fetch", "expo", ExpoPayload(intent, dests)))
    /\ \E outcome \in ExpoOutcomes, data \in ReceiptLists :
         /\ fetched' = [fetched EXCEPT !.push = outcome]
         /\ IF outcome = "rejected" /\ Len(SelectSeq(calls, LAMBDA c : c.op = "fetch")) = 0
            THEN UNCHANGED <<pc, responses>>
            ELSE Finish(ExpoResponse(variant, outcome, data, dests))
    /\ UNCHANGED <<variant, env, reqBody, store, payload, route, docRead,
                   intent, dests, escaped>>

\* const response = await fetch(..) and everything after it
ExpoPost ==
    /\ pc = "push"
    /\ Log(Call("sendPushNotifications", "fetch", "expo", ExpoPayload(intent, dests)))
    /\ \E outcome \in ExpoOutcomes, data \in ReceiptLists :
         /\ fetched' = [fetched EXCEPT !.push = outcome,
                                       !.receipts = IF outcome = "ok" THEN data ELSE <<>>]
         /\ Finish(ExpoResponse(variant, outcome, data, dests))
    /\ UNCHANGED <<variant, env, reqBody, store, payload, route, docRead,
                   intent, dests, escaped>>

\* how messaging.createPush can end: "ok", or the message of its rejection
CreatePushOutcomes ==
    { <<"ok">>, <<"AppwriteException: ", ErrProviderNotFound>>, <<ErrMessaging>> }

\* e.message.includes(s)
MessageIncludes(msg, s) == s \in Range(msg)

\* CreatePushResponse without the 'Provider not found' case
CreatePushResponse_Raw(outcome, n) ==
    IF outcome = <<"ok">>
    THEN [Response(TRUE, Some(200), <<>>) EXCEPT
            !.messageId = Some("message-1"), !.sentTo = Some(Len(n.userIds))]
    ELSE Failure(500, outcome)

\* "managed": the response after createPush
CreatePushResponse(outcome, n) ==
    IF outcome = <<"ok">>
    THEN [Response(TRUE, Some(200), <<>>) EXCEPT
            !.messageId = Some("message-1"), !.sentTo = Some(Len(n.userIds))]
    ELSE IF MessageIncludes(outcome, ErrProviderNotFound)
    THEN [Failure(500, MsgProviderNotConfigured) EXCEPT !.details = outcome]
    ELSE Failure(500, outcome)

\* PushMessage with the user ids passed in the place of the targets
PushMessage_AsTargets(n) ==
    [users |-> <<>>, topics |-> <<>>, targets |-> n.userIds,
     title |-> n.title, body |-> n.body, postId |-> n.postId, type |-> n.type,
     badge |-> 1]

\* the arguments of createPush: title, body, topics, users, targets, the data
\* (postId and type of messageData) and the badge count
PushMessage(n) ==
    [users |-> n.userIds, topics |-> <<>>, targets |-> <<>>,
     title |-> n.title, body |-> n.body, postId |-> n.postId, type |-> n.type,
     badge |-> 1]

\* "managed": await messaging.createPush(ID.unique(), title, body, [], userIds, [], ..)
CreatePush ==
    /\ pc = "createPush"
    /\ Log(Call("sendAppwriteNotifications", "createPush", "messaging", PushMessage(intent)))
    /\ \E outcome \in CreatePushOutcomes :
         /\ fetched' = [fetched EXCEPT
                           !.push = IF outcome = <<"ok">> THEN "ok" ELSE "failed",
                           !.pushError = IF outcome = <<"ok">> THEN <<>> ELSE outcome]
         /\ Finish(CreatePushResponse(outcome, intent))
    /\ UNCHANGED <<variant, env, reqBody, store, payload, route, docRead,
                   intent, dests, escaped>>

----------------------------------------------------------------------------
(* The registration handler *)

\* ValidateRegistration with platform left out of the presence check
ValidateRegistration_NoPlatformCheck ==
    /\ pc = "register"
    /\ IF payload.kind = "null"
       THEN Finish(Failure(500, <<ErrType>>))
       ELSE IF ~Has(payload.userId) \/ ~Has(payload.token)
       THEN Finish(Failure(500, MsgMissingRegisterFields))
       ELSE pc' = "createTarget" /\ UNCHANGED responses
    /\ UNCHANGED <<variant, env, reqBody, store, payload, route, docRead, fetched,
                   intent, dests, calls, escaped>>

\* const { userId, token, platform, deviceId } = payload and the presence check;
\* both throw into the handler's catch
ValidateRegistration ==
    /\ pc = "register"
    /\ IF payload.kind = "null"
       THEN Finish(Failure(500, <<ErrType>>))
       ELSE IF ~Has(payload.userId) \/ ~Has(payload.token) \/ ~Has(payload.platform)
       THEN Finish(Failure(500, MsgMissingRegisterFields))
       ELSE pc' = "createTarget" /\ UNCHANGED responses
    /\ UNCHANGED <<variant, env, reqBody, store, payload, route, docRead, fetched,
                   intent, dests, calls, escaped>>

\* await messaging.createPushTarget(ID.unique(), userId, token, platform, ..)
CreatePushTarget ==
    /\ pc = "createTarget"
    /\ Log(Call("handler", "createPushTarget", "messaging", <<Val(payload.userId)>>))
    /\ \E outcome \in CallOutcomes :
         /\ fetched' = [fetched EXCEPT
                           !.push = IF outcome = "ok" THEN "ok" ELSE "failed",
                           !.pushError = IF outcome = "ok" THEN <<>> ELSE <<outcome>>]
         /\ IF outcome = "ok"
            THEN Finish([Success(Some(200), <<"Push token registered successfully">>)
                           EXCEPT !.targetId = Some("target-1")])
            ELSE Finish(Failure(500, <<outcome>>))
    /\ UNCHANGED <<variant, env, reqBody, store, payload, route, docRead,
                   intent, dests, escaped>>

----------------------------------------------------------------------------
(* The invocation *)

Next ==
    \/ CheckCredentials
    \/ CreateClient
    \/ CreateClientThrows
    \/ ParseBody
    \/ Classify
    \/ FetchAuthor
    \/ ListUsers
    \/ IssueFetches
    \/ PostFetchSettles
    \/ CommenterFetchSettles
    \/ JoinFetches
    \/ FetchPost
    \/ HandleDirectCall
    \/ EnterSend
    \/ QueryPushTokens
    \/ QueryUsersFallback
    \/ LookupTargets
    \/ ExpoPost
    \/ CreatePush
    \/ ValidateRegistration
    \/ CreatePushTarget

Spec == Init /\ [][Next]_vars


----------------------------------------------------------------------------
(* Vocabulary of the properties *)

Indices(seq) == 1..Len(seq)

IsTokenLookup(c) == c.by = "getUserPushTokens" \/ c.op = "listTargets"
IsPush(c) == c.op \in {"fetch", "createPush"}

PushCalls == { i \in Indices(calls) : IsPush(calls[i]) }
TokenLookups == { i \in Indices(calls) : IsTokenLookup(calls[i]) }

\* neither a token / target lookup nor a push call has been made
NothingDispatched == PushCalls = {} /\ TokenLookups = {}

Done == pc = "done"

\* the response goes out with status n: passed to res.json or, for 200, left to the
\* host (the status parameter of res.json is optional)
HasStatus(r, n) == r.status = Some(n) \/ (n = 200 /\ r.status = None)

\* the invocation has ended with exactly one response
RespondedOnce == Done /\ Len(responses) = 1

\* the document the request carries, under `document` or inlined
EventDoc(p) == IF Has(p.document) THEN Val(p.document) ELSE TopLevelDoc(p)

CredentialMissing == ~env.projectId \/ ~env.apiKey

----------------------------------------------------------------------------
(* C1 *)

\* C1: when APPWRITE_PROJECT_ID or APPWRITE_API_KEY is absent, a notification handler
\* makes no downstream call (no body parsing, database read, token lookup or push),
\* and when it ends it has given the single response {ok:false, error} at 500.
C1_MissingCredentialFailsFast ==
    (variant # "register" /\ CredentialMissing) =>
        /\ calls = <<>>
        /\ Done => /\ Len(responses) = 1
                   /\ ~responses[1].ok
                   /\ responses[1].status = Some(500)
                   /\ responses[1].error # <<>>

----------------------------------------------------------------------------
(* C2 *)

\* C2: at most one res.json response is ever emitted, and an invocation that has
\* returned has emitted exactly one, with an explicit status code.  (The claim adds
\* that no exception leaves the handler; an invocation that ends that way is at
\* "crashed", not at "done", and has emitted nothing.)
C2_ExactlyOneExplicitResponse ==
    /\ Len(responses) <= 1
    /\ Done => Len(responses) = 1 /\ Has(responses[1].status)

----------------------------------------------------------------------------
(* C3 *)

\* C3: within one invocation the push-delivery call (the Expo POST or
\* messaging.createPush) is issued at most once; it is never issued again after a
\* non-success response or a thrown error.
C3_PushAtMostOnce == Cardinality(PushCalls) <= 1

\* an invocation that ended in a failure response after its one push call
C3_Witness ==
    /\ Done
    /\ Cardinality(PushCalls) = 1
    /\ Len(responses) = 1
    /\ ~responses[1].ok

----------------------------------------------------------------------------
(* C4 *)

\* no read of the store was refused by the backend
StoreAnswers ==
    \A f \in {"author", "users", "post", "commenter", "rejected"} :
        fetched[f] # ErrUnavailable

\* the request is a comment on the stored post written by that post's author, whose
\* user record exists
SelfComment ==
    /\ EventDoc(payload).userId = Some(store.postAuthor)
    /\ EventDoc(payload).postId = Some(PostId)
    /\ store.postAuthor \in store.users

\* C4: a new-comment event whose comment userId is the authorId of its post ends
\* with exactly one response, {ok: true} at status 200, and with no token lookup and
\* no push call made (stated for the invocations in which the backend answers every
\* read).
C4_SelfCommentIsNoOp ==
    (route = "newComment" /\ SelfComment /\ StoreAnswers) =>
        /\ NothingDispatched
        /\ Done => /\ Len(responses) = 1
                   /\ responses[1].ok
                   /\ HasStatus(responses[1], 200)

----------------------------------------------------------------------------
(* C5 *)

\* the users whose devices a push call addresses
PushedTo(c) ==
    IF c.op = "createPush" THEN Range(c.arg.users)
    ELSE { c.arg.to[i].owner : i \in 1..Len(c.arg.to) }

\* C5: every push call made for a new-comment event addresses exactly one user, the
\* author of the commented post, and that user is not the commenter.
C5_CommentNotifiesAuthorOnly ==
    route = "newComment" =>
        \A i \in PushCalls :
            /\ PushedTo(calls[i]) = {store.postAuthor}
            /\ EventDoc(payload).userId # Some(store.postAuthor)

----------------------------------------------------------------------------
(* C6 *)

\* C6: for a new-post event the userIds of the notification data are exactly the
\* listed users (first page) without the post's authorId, whether the post's fields
\* are under `document` or inlined.
C6_PostRecipientsExcludeAuthor ==
    (route = "newPost" /\ intent # NoIntent /\ Has(EventDoc(payload).authorId)) =>
        Range(intent.userIds) =
            Range(FirstPage(SeqOf(store.users))) \ {Val(EventDoc(payload).authorId)}

----------------------------------------------------------------------------
(* C7 *)

\* the request is a post whose author is the only user of the store
LonePostAuthor ==
    /\ Has(EventDoc(payload).authorId)
    /\ store.users = {Val(EventDoc(payload).authorId)}

\* C7: a new-post event in a store that holds no user but the post's author ends
\* with exactly one response, {ok: true, message: 'No users to notify'} at status 200,
\* and with no token lookup and no push call made (stated for the invocations in
\* which the backend answers every read).
C7_NoOtherUsersIsNoOp ==
    (route = "newPost" /\ LonePostAuthor /\ StoreAnswers) =>
        /\ NothingDispatched
        /\ Done => /\ Len(responses) = 1
                   /\ responses[1].ok
                   /\ HasStatus(responses[1], 200)
                   /\ responses[1].message = <<"No users to notify">>

----------------------------------------------------------------------------
(* C8 *)

\* C8: for a string body that is not JSON no notification data is ever built, no
\* token lookup or push call is made, and the invocation ends with exactly one
\* failure response.
C8_MalformedBodyIsRejected ==
    reqBody.form = "garbage" =>
        /\ intent = NoIntent
        /\ NothingDispatched
        /\ Done => Len(responses) = 1 /\ ~responses[1].ok

----------------------------------------------------------------------------
(* C9 *)

DirectFields == {"userIds", "title", "body", "postId", "type"}

\* one of the five fields of a direct call is absent from the request
DirectFieldAbsent == \E f \in DirectFields : ~Has(payload[f])

----------------------------------------------------------------------------
(* C10 *)

\* messages of the failures of what the handler calls
DownstreamErrors ==
    { <<ErrNotFound>>, <<ErrUnavailable>>, <<ErrFetch>>, <<ErrExpoText>>,
      <<MsgExpoPrefix, ErrExpoText>>, <<ErrMessaging>> }

\* C10: every ok:false response carries an error text; a response to missing
\* required fields or to a body that is not JSON has status 400, a response to a
\* missing credential or to a downstream failure has status 500, and every ok:true
\* response has status 200.
C10_StatusTaxonomy ==
    \A i \in Indices(responses) :
        LET r == responses[i] IN
        /\ ~r.ok => r.error # <<>>
        /\ r.ok => HasStatus(r, 200)
        /\ r.error \in {MsgMissingFields, MsgMissingRegisterFields} => HasStatus(r, 400)
        /\ (reqBody.form = "garbage" /\ MessageIncludes(r.error, ErrSyntax)) =>
               HasStatus(r, 400)
        /\ r.error \in {MsgNoProject, MsgNoKey} => HasStatus(r, 500)
        /\ r.error \in DownstreamErrors => HasStatus(r, 500)

----------------------------------------------------------------------------
(* C11 *)

\* recipient resolution has run and found no device token / target
ResolvedNothing == Done /\ TokenLookups # {} /\ dests = <<>>

\* C11: when recipient resolution finds no device token or target, the invocation
\* ends with one ok:true response at status 200 and without a push call.
C11_NoRecipientsIsSuccess ==
    ResolvedNothing =>
        /\ PushCalls = {}
        /\ Len(responses) = 1
        /\ responses[1].ok
        /\ HasStatus(responses[1], 200)

----------------------------------------------------------------------------
(* C12 *)

\* C12: when at least one device token was resolved and the POST to the push
\* endpoint got a 2xx response, the invocation ends with one ok:true response at
\* status 200 whose sentTo is the number of tokens and whose messageId is the id of
\* the first delivery receipt.
C12_SuccessReportsCount ==
    (Done /\ fetched.push = "ok" /\ Len(dests) >= 1) =>
        /\ Len(responses) = 1
        /\ responses[1].ok
        /\ HasStatus(responses[1], 200)
        /\ responses[1].sentTo = Some(Len(dests))
        /\ fetched.receipts # <<>> => responses[1].messageId = Some(fetched.receipts[1])

----------------------------------------------------------------------------
(* C13 *)

\* the preview C13 describes for a content
ClaimedPreview(content) ==
    IF Len(content) <= 60 THEN content ELSE SubSeq(content, 1, 60) \o <<"...">>

\* the part of a notification body that comes from the content: its characters and
\* the ellipsis
ContentPart(body) == SelectSeq(body, LAMBDA piece : piece \in {"x", "..."})

\* C13: for a new-post event whose post document has content and no title, the body of the
\* notification embeds the content itself when it has at most 60 characters, and
\* otherwise its first 60 characters followed by '...'.
C13_PostPreview ==
    (/\ route = "newPost"
     /\ intent # NoIntent
     /\ Has(docRead)
     /\ ~Truthy(Val(docRead).title)
     /\ Truthy(Val(docRead).content)) =>
        ContentPart(intent.body) = ClaimedPreview(Val(Val(docRead).content))

----------------------------------------------------------------------------
(* C14 *)

\* C14: when the push endpoint answers the POST with a non-2xx response, the
\* invocation ends with one ok:false response at status 500 whose error is the
\* text of that response, nothing added, and which reports no recipients as sent.
C14_ProviderErrorVerbatim ==
    (Done /\ fetched.push = "rejected") =>
        /\ Len(responses) = 1
        /\ ~responses[1].ok
        /\ HasStatus(responses[1], 500)
        /\ responses[1].error = <<ErrExpoText>>
        /\ responses[1].sentTo = None

----------------------------------------------------------------------------
(* C15 *)

\* C15: in the managed handler a createPush failure whose message contains
\* 'Provider not found' is answered at 500 with the fixed error 'Messaging provider
\* not configured. ...' and the raw message in `details`; every other createPush
\* failure is answered at 500 with the raw message as error and no details.
C15_ProviderNotConfigured ==
    (variant = "managed" /\ Done /\ fetched.push = "failed") =>
        /\ Len(responses) = 1
        /\ ~responses[1].ok
        /\ responses[1].status = Some(500)
        /\ IF ErrProviderNotFound \in Range(fetched.pushError)
           THEN /\ responses[1].error = MsgProviderNotConfigured
                /\ responses[1].details = fetched.pushError
           ELSE /\ responses[1].error = fetched.pushError
                /\ responses[1].details = <<>>

\* a createPush call has failed for the missing provider and has been answered
C15_Witness ==
    /\ variant = "managed"
    /\ Done
    /\ ErrProviderNotFound \in Range(fetched.pushError)
    /\ Len(responses) = 1
    /\ responses[1].details # <<>>

----------------------------------------------------------------------------
(* C16 *)

\* a fetch of a referenced record has been rejected
FetchFailed(outcome) == outcome \notin {"none", "pending", "ok"}

\* C16: once the fetch of a referenced record (the author of a new post; the post
\* or the commenter of a new comment) has failed, no notification data is built, no
\* token lookup or push call is made, and the invocation ends with one ok:false
\* response at status 500.
C16_FailedFetchFailsRequest ==
    (FetchFailed(fetched.author) \/ FetchFailed(fetched.post)
       \/ FetchFailed(fetched.commenter)) =>
        /\ intent = NoIntent
        /\ NothingDispatched
        /\ Done => /\ Len(responses) = 1
                   /\ ~responses[1].ok
                   /\ responses[1].status = Some(500)

\* a new comment whose post was fetched and whose commenter was not, answered
C16_Witness ==
    /\ Done
    /\ route = "newComment"
    /\ fetched.post = "ok"
    /\ FetchFailed(fetched.commenter)
    /\ Len(responses) = 1
    /\ ~responses[1].ok

----------------------------------------------------------------------------
(* C17 *)

\* C17: in the handlers that classify on $collectionId, a request goes to
\* handleNewPost (handleNewComment) only if its payload has a $collectionId that is
\* the configured POSTS_COLLECTION_ID (COMMENTS_COLLECTION_ID), and a payload
\* without $collectionId is a direct call, whether or not the identifiers are
\* configured.
C17_CollectionRouting ==
    (variant \in CollectionVariants /\ route # "none") =>
        /\ route = "newPost" =>
              env.collectionIds /\ payload.collectionId = Some(PostsCollectionId)
        /\ route = "newComment" =>
              env.collectionIds /\ payload.collectionId = Some(CommentsCollectionId)
        /\ ~Has(payload.collectionId) => route = "direct"

----------------------------------------------------------------------------
(* C18 *)

\* the payload has a non-empty events list
HasEvents == Has(payload.events) /\ Len(Val(payload.events)) > 0

\* the first event name contains the collection marker and 'create'
FirstEventCreates(marker) ==
    /\ HasEvents
    /\ marker \in Val(payload.events)[1]
    /\ "create" \in Val(payload.events)[1]

\* C18: in the handlers that classify on events only events[0] decides: the request
\* goes to handleNewPost iff it contains the posts collection identifier and
\* 'create', to handleNewComment iff it contains the comments collection identifier
\* and 'create'; any other first event is answered 400 'Unhandled event type' with
\* no database read and no push call; an absent or empty events list makes the
\* request a direct call.
C18_EventRouting ==
    (variant \in EventVariants /\ route # "none") =>
        /\ route = "newPost" <=> FirstEventCreates(PostsMarker(variant))
        /\ route = "newComment" <=> FirstEventCreates(CommentsMarker(variant))
        /\ route = "direct" <=> ~HasEvents
        /\ route = "unhandled" =>
              /\ Done
              /\ responses = <<Failure(400, <<"Unhandled event type">>)>>
              /\ \A i \in Indices(calls) : calls[i].op = "parseBody"

\* a request whose second event, but not its first, names a created post
C18_Witness ==
    /\ Done
    /\ route = "unhandled"
    /\ Len(Val(payload.events)) = 2
    /\ FirstEventCreates(PostsMarker(variant)) = FALSE
    /\ Len(responses) = 1

----------------------------------------------------------------------------
(* C19 *)

\* both queries of getUserPushTokens have thrown
TokenResolutionFailed ==
    /\ fetched.tokens \notin {"none", "ok"}
    /\ fetched.fallback \notin {"none", "ok"}

\* C19: when the query of the push-token collection and the fallback query of the
\* users collection both throw, no push call is made and the invocation ends with the
\* one response {ok: true, message: 'No push tokens found', sentTo: 0} at status 200.
C19_FailedResolutionIsZeroRecipients ==
    TokenResolutionFailed =>
        /\ PushCalls = {}
        /\ Done
        /\ Len(responses) = 1
        /\ responses[1].ok
        /\ responses[1].status = Some(200)
        /\ responses[1].message = <<"No push tokens found">>
        /\ responses[1].sentTo = Some(0)

\* an invocation in which both queries threw has ended
C19_Witness ==
    /\ TokenResolutionFailed
    /\ Done
    /\ Cardinality(TokenLookups) = 2
    /\ Len(responses) = 1

----------------------------------------------------------------------------
(* C20 *)

\* a token string that is empty or only whitespace
Blank(text) == text \in {"", " ", "  "}

\* the POSTs made to the push endpoint
ExpoPosts == { i \in PushCalls : calls[i].op = "fetch" }

\* C20: every entry of the `to` list of a POST to the push endpoint is a non-blank
\* token string; token documents and user records whose token is missing, empty or
\* whitespace-only add nothing to the list.
C20_OnlyNonBlankTokens ==
    \A i \in ExpoPosts :
        \A k \in 1..Len(calls[i].arg.to) : ~Blank(calls[i].arg.to[k].text)

----------------------------------------------------------------------------
(* C21 *)

\* the two requests Promise.all waits for have both settled
BothSettled ==
    /\ fetched.post \notin {"none", "pending"}
    /\ fetched.commenter \notin {"none", "pending"}

\* the response handleNewComment's catch gives when the request that ended with
\* `outcome` is the one whose rejection Promise.all passes on
RejectionResponse(outcome) == Failure(500, <<outcome>>)

\* C21: in the handleNewComment that fetches the post and the commenter together,
\* both requests are issued before either settles, a token lookup or push call is
\* made only after both have succeeded, and when both requests fail the response
\* is the same whichever of the two settled first: it is the response to the post's
\* failure and the response to the commenter's failure at once.
C21_FetchOrderIrrelevant ==
    (variant \in CollectionVariants /\ route = "newComment") =>
        /\ fetched.post = "none" <=> fetched.commenter = "none"
        /\ ~NothingDispatched => fetched.post = "ok" /\ fetched.commenter = "ok"
        /\ (Done /\ BothSettled /\ FetchFailed(fetched.post)
              /\ FetchFailed(fetched.commenter)) =>
               /\ responses = <<RejectionResponse(fetched.post)>>
               /\ responses = <<RejectionResponse(fetched.commenter)>>

----------------------------------------------------------------------------
(* C22 *)

\* the reads of records made to build the notification (the author, the users, the
\* post, the commenter)
IsRecordFetch(c) == c.by \in {"handleNewPost", "handleNewComment"}

RecordFetches == { i \in Indices(calls) : IsRecordFetch(calls[i]) }

\* the reads a webhook route makes before it builds its notification data
Enriched ==
    CASE route = "newPost" ->
            \E j \in RecordFetches : calls[j].op = "listDocuments"
      [] route = "newComment" ->
            \E j \in RecordFetches : calls[j].op = "getDocument" /\ calls[j].target = "posts"
      [] OTHER -> RecordFetches = {}

----------------------------------------------------------------------------
(* C23 *)

\* the queries getUserPushTokens has made of the users collection
UsersLookups == { i \in TokenLookups : calls[i].target = "users" }

\* C23: getUserPushTokens queries the users collection only after its query of the
\* push-token collection has thrown; when that first query succeeds its tokens are
\* the result, also when there are none, and the users collection is not queried;
\* when the fallback query succeeds its tokens alone are the result.
C23_FallbackOnlyOnThrow ==
    variant \in TokenVariants =>
        /\ UsersLookups # {} => fetched.tokens \notin {"none", "ok"}
        /\ fetched.tokens = "ok" =>
              /\ Cardinality(TokenLookups) = 1
              /\ UsersLookups = {}
              /\ dests = TokensFromCollection(store, intent.userIds)
        /\ fetched.fallback = "ok" => dests = TokensFromUsers(store, intent.userIds)

\* the push-token collection was read and held no usable token of the recipients,
\* whose user records do hold one
C23_Witness ==
    /\ variant \in TokenVariants
    /\ Done
    /\ fetched.tokens = "ok"
    /\ dests = <<>>
    /\ TokensFromUsers(store, intent.userIds) # <<>>
    /\ Cardinality(TokenLookups) = 1
    /\ Len(responses) = 1

----------------------------------------------------------------------------
(* C24 *)

\* the name the handler has for the commenter: the name of the fetched user record
\* where the commenter is fetched, the comment document's authorName elsewhere
CommenterNameRead ==
    IF variant \in CollectionVariants
    THEN UserRecord(store.tokens, Val(Val(docRead).userId)).name
    ELSE Val(docRead).authorName

\* what C24 has follow 'commented on your post': the title, else the content cut to
\* 40 characters with '...' when it is longer, else nothing
ClaimedCommentExcerpt(post) ==
    IF Truthy(post.title) THEN Val(post.title)
    ELSE IF Truthy(post.content)
    THEN IF Len(Val(post.content)) <= 40 THEN Val(post.content)
         ELSE SubSeq(Val(post.content), 1, 40) \o <<"...">>
    ELSE <<>>

\* the part of a notification body that comes from the post: the title's and the
\* content's characters, the ellipsis, and the text an undefined value is printed as
PostPart(body) == SelectSeq(body, LAMBDA piece : piece \in {"T", "x", "...", "undefined"})

\* C24: the body of the notification built for a new comment starts with the
\* commenter's name, 'Someone' when the handler has none, and what it takes from the
\* post is the title if there is one, else the content (in full up to 40 characters,
\* the first 40 and '...' beyond), else nothing.
C24_CommentBody ==
    (route = "newComment" /\ intent # NoIntent) =>
        /\ Head(intent.body) =
              (IF Truthy(CommenterNameRead) THEN Head(Val(CommenterNameRead)) ELSE "Someone")
        /\ " commented on your post" \in Range(intent.body)
              \/ " commented on your post: \"" \in Range(intent.body)
        /\ PostPart(intent.body) = ClaimedCommentExcerpt(StoredPost(store))

----------------------------------------------------------------------------
(* C25 *)

NotificationTypes == {"new_post", "new_comment"}

\* C25: every notification for which a push call is made has the type 'new_post' or
\* 'new_comment': 'new_post' for a new-post event, 'new_comment' for a new-comment
\* event, and no push call is made for a direct call with another type.
C25_DispatchedTypes ==
    PushCalls # {} =>
        /\ intent.type \in NotificationTypes
        /\ route = "newPost" => intent.type = "new_post"
        /\ route = "newComment" => intent.type = "new_comment"

----------------------------------------------------------------------------
(* C26 *)

----------------------------------------------------------------------------
(* C27 *)

\* the createPush calls made
CreatePushCalls == { i \in PushCalls : calls[i].op = "createPush" }

----------------------------------------------------------------------------
(* C28 *)

\* the createPushTarget calls made
TargetRegistrations == { i \in Indices(calls) : calls[i].op = "createPushTarget" }

\* the body was parsed to an object that has userId, token and platform
RegistrationComplete ==
    /\ payload.kind = "object"
    /\ Has(payload.userId) /\ Has(payload.token) /\ Has(payload.platform)

\* C28: the registration handler calls createPushTarget at most once, and an ended
\* invocation has called it if and only if the parsed body has userId, token and
\* platform.  When the call succeeds the one response is {ok: true, targetId} at
\* status 200; when it fails, when a field is missing or when the body cannot be
\* parsed, the one response is {ok: false, error} at status 500.
C28_RegistrationContract ==
    variant = "register" =>
        /\ Cardinality(TargetRegistrations) <= 1
        /\ TargetRegistrations # {} => RegistrationComplete
        /\ Done =>
              /\ Len(responses) = 1
              /\ TargetRegistrations # {} <=> RegistrationComplete
              /\ IF TargetRegistrations # {} /\ fetched.push = "ok"
                 THEN /\ responses[1].ok
                      /\ responses[1].status = Some(200)
                      /\ Has(responses[1].targetId)
                 ELSE /\ ~responses[1].ok
                      /\ responses[1].status = Some(500)
                      /\ responses[1].error # <<>>
                      /\ ~Has(responses[1].targetId)

\* a registration without its platform has been refused
C28_Witness ==
    /\ variant = "register"
    /\ Done
    /\ Has(payload.userId) /\ Has(payload.token) /\ ~Has(payload.platform)
    /\ TargetRegistrations = {}
    /\ Len(responses) = 1
    /\ responses[1].error = MsgMissingRegisterFields

----------------------------------------------------------------------------
(* C29 *)

\* C29: every POST to the push endpoint carries at least one destination, and an
\* invocation whose token or target resolution has found nothing makes no POST.
C29_NoEmptyDispatch ==
    /\ \A i \in ExpoPosts : Len(calls[i].arg.to) >= 1
    /\ (TokenLookups # {} /\ dests = <<>> /\ pc \notin {"tokens", "fallback", "targets"}) =>
           ExpoPosts = {} /\ Done

\* the fallback query of the users collection found no usable token and the
\* invocation ended without a POST
C29_Witness ==
    /\ variant \in TokenVariants
    /\ Done
    /\ fetched.fallback = "ok"
    /\ dests = <<>>
    /\ ExpoPosts = {}
    /\ Len(responses) = 1
    /\ responses[1].sentTo = Some(0)

----------------------------------------------------------------------------
(* C30 *)

\* C30: every response goes out with status 200, 400 or 500, and its ok is true
\* exactly when the status is 200.
C30_StatusMatchesOk ==
    \A i \in Indices(responses) :
        LET r == responses[i] IN
        /\ HasStatus(r, 200) \/ HasStatus(r, 400) \/ HasStatus(r, 500)
        /\ r.ok <=> HasStatus(r, 200)

\* a request has been refused with status 400, and so with ok false
C30_Witness ==
    /\ Done
    /\ Len(responses) = 1
    /\ responses[1].status = Some(400)
    /\ ~responses[1].ok
    /\ responses[1].error # <<>>

====
